---- MODULE Spec2Model ----
(***************************************************************************)
(* Tracker (src/src/tracker.rs): the orchestration layer of electrs.       *)
(*                                                                         *)
(* The Tracker owns an Index and a Mempool and drives them against a       *)
(* bitcoin daemon.  Index, Mempool, ScriptHashStatus and Daemon are        *)
(* collaborators defined in other modules of the crate; what they do here  *)
(* follows the specification of their interfaces, and every outcome that   *)
(* specification allows is drawn nondeterministically.                     *)
(*                                                                         *)
(* Six specifications share the variables:                                 *)
(*   Spec        sync, status, sp_status and update_scripthash_status      *)
(*               against a daemon whose chain and pool move                *)
(*   SpecSync    the same without the subscriber (sync and the daemon)     *)
(*   SpecLive    SpecSync under the polling loop (weak fairness of sync)   *)
(*   SpecLookup  lookup_transaction over bounded candidate lists           *)
(*   SpecTweaks  get_tweaks over bounded tweak record sequences            *)
(*   SpecReaders the three above that hold a read operation, side by side  *)
(***************************************************************************)
EXTENDS Integers, Sequences, FiniteSets, TLC

\* ------------------------------------------------------------------ bounds
MaxTx == 1          \* transactions touching the watched script hash: 1..MaxTx
MaxHeight == 2      \* longest daemon chain
MaxCandidates == 2  \* candidate blocks the Index records for one txid
MaxBlockItems == 2  \* items in the content of one delivered block
MaxRecords == 2     \* tweak records the Index holds
MaxTweakHeight == 2 \* heights of tweak records: 1..MaxTweakHeight
MaxTweakLen == 1    \* values in one tweak record

Txs == 1..MaxTx

VARIABLES
    \* Tracker configuration, fixed at construction (tracker.rs 56-57)
    ignore_mempool, silent_payments_index,
    \* the daemon: best chain (a sequence of blocks, a block being the set of
    \* watched transactions it confirms) and its pool of pending transactions
    chain, dmempool,
    \* Index: the chain it has indexed, readiness flags, silent-payments height
    idxChain, is_ready, spHeight, is_sp_ready,
    \* Mempool: the Tracker's snapshot of pending transactions
    mempool,
    \* one sync call: position, the local `done` while the call runs, the
    \* value the last call returned ("none" while one runs)
    pc, done, ret,
    \* history of the current/last sync call: collaborator calls made, in
    \* order, with their outcomes; and the Mempool as it was when it started
    steps, mempoolAtCall,
    \* history: whether the current/last sync call started with the Index
    \* (and the silent-payments index, when enabled) caught up with the daemon
    \* and the daemon has not moved while the call ran
    steady,
    \* history: whether Index / silent-payments index ever finished a pass
    idxFullPass, spFullPass,
    \* one subscriber's ScriptHashStatus and the last update's return value
    statushash, changed,
    \* history for change detection: the visible history at the last
    \* successful update; whether, since then, a transaction entered or left
    \* the Mempool or a block holding one was indexed (touched), and whether
    \* Index or Mempool changed at all (dirty)
    lastSeen, touched, dirty,
    \* lookup_transaction: the requested txid, the candidate block hashes the
    \* Index recorded for it (in its order), the content the daemon holds for
    \* each candidate, how many blocks it has delivered, the closure's
    \* `result`, and how the call ended ("idle": none made, "running",
    \* "ok": Ok(result), "err": a propagated error, "panic")
    txid, blockhashes, blocks, delivered, result, outcome,
    \* history: the positions of the candidates whose content was scanned
    scanned,
    \* get_tweaks: the (height, values) records the Index holds, the
    \* requested height, the records the Index yielded, how many of them the
    \* loop has folded, the map `res`, and the call's position ("idle": none
    \* made, "called", "folding", "returned": Ok(res))
    tweakStore, height, tweaks, folded, res, twpc

cfgVars    == <<ignore_mempool, silent_payments_index>>
daemonVars == <<chain, dmempool>>
indexVars  == <<idxChain, is_ready, spHeight, is_sp_ready, idxFullPass, spFullPass>>
callVars   == <<pc, done, ret, steps, mempoolAtCall>>
quietVars  == <<steady>>
statusVars == <<statushash, changed, lastSeen>>
sinceVars  == <<touched, dirty>>

lookupVars == <<txid, blockhashes, blocks, delivered, result, outcome, scanned>>
tweakVars  == <<tweakStore, height, tweaks, folded, res, twpc>>
pureVars   == <<lookupVars, tweakVars>>
trackerVars == <<cfgVars, daemonVars, indexVars, mempool, callVars, quietVars, statusVars, sinceVars>>

vars == <<trackerVars, pureVars>>

\* ----------------------------------------------------------------- helpers
Min(a, b) == IF a < b THEN a ELSE b

RECURSIVE CommonPrefixLen(_, _)
CommonPrefixLen(a, b) ==
    IF a = <<>> \/ b = <<>> \/ Head(a) # Head(b) THEN 0
    ELSE 1 + CommonPrefixLen(Tail(a), Tail(b))

\* the elements of a set of numbers in increasing order
RECURSIVE SortedSeq(_)
SortedSeq(S) ==
    IF S = {} THEN <<>>
    ELSE LET m == CHOOSE x \in S : \A y \in S : x <= y
         IN  <<m>> \o SortedSeq(S \ {m})

InChain(c) == UNION { c[i] : i \in 1..Len(c) }

\* ------------------------------------------------------------------ daemon
\* The daemon is another process: its chain and pool move at any time, also
\* between two collaborator calls of one sync call.

\* history: a move while a sync call runs ends that call's steadiness
DaemonMoved == steady' = (steady /\ pc = "idle")

TxEnter ==
    /\ \E t \in Txs \ (dmempool \cup InChain(chain)) : dmempool' = dmempool \cup {t}
    /\ DaemonMoved
    /\ UNCHANGED <<chain, cfgVars, indexVars, mempool, callVars, statusVars, sinceVars, pureVars>>

TxLeave ==
    /\ \E t \in dmempool : dmempool' = dmempool \ {t}
    /\ DaemonMoved
    /\ UNCHANGED <<chain, cfgVars, indexVars, mempool, callVars, statusVars, sinceVars, pureVars>>

NewBlock ==
    /\ Len(chain) < MaxHeight
    /\ \E S \in SUBSET dmempool :
         /\ chain' = Append(chain, S)
         /\ dmempool' = dmempool \ S
    /\ DaemonMoved
    /\ UNCHANGED <<cfgVars, indexVars, mempool, callVars, statusVars, sinceVars, pureVars>>

Reorg ==
    /\ Len(chain) > 0
    /\ chain' = SubSeq(chain, 1, Len(chain) - 1)
    /\ dmempool' = dmempool \cup chain[Len(chain)]
    /\ DaemonMoved
    /\ UNCHANGED <<cfgVars, indexVars, mempool, callVars, statusVars, sinceVars, pureVars>>

\* ------------------------------------------------------------------- Index
\* Index::sync(daemon, exit_flag): brings the indexed chain towards the
\* daemon's chain (rolling back to the common prefix after a reorg) and
\* reports whether the Index is now caught up with the daemon's tip.  It can
\* stop early (a batch limit, the exit flag, a lost connection) at a block
\* boundary.  Outcomes: the indexed chain after the call and done/more/err.
IndexReach ==
    { SubSeq(chain, 1, k) : k \in CommonPrefixLen(idxChain, chain)..Len(chain) }

IndexSyncOutcomes ==
    IF idxChain = chain
    THEN { [idx |-> idxChain, r |-> "done"], [idx |-> idxChain, r |-> "err"] }
    ELSE { [idx |-> c, r |-> IF c = chain THEN "done" ELSE "more"] :
              c \in IndexReach \ {idxChain} }
         \cup { [idx |-> c, r |-> "err"] : c \in (IndexReach \ {chain}) \cup {idxChain} }

\* the blocks of c that idxChain does not hold yet
NewlyIndexed(c) ==
    { c[i] : i \in (CommonPrefixLen(idxChain, c) + 1)..Len(c) }

\* the Index's state after Index::sync ended with outcome o
IndexApply(o) ==
    /\ idxChain' = o.idx
    /\ is_ready' = (is_ready \/ o.r = "done")
    /\ idxFullPass' = (idxFullPass \/ o.r = "done")
    /\ spHeight' = Min(spHeight, CommonPrefixLen(idxChain, o.idx))
    /\ touched' = (touched \/ \E b \in NewlyIndexed(o.idx) : b # {})
    /\ dirty' = (dirty \/ o.idx # idxChain)
    /\ UNCHANGED <<is_sp_ready, spFullPass>>

\* Index::silent_payments_sync(daemon, exit_flag): scans indexed blocks for
\* tweaks from the height reached so far; reports whether the sub-index has
\* caught up with the indexed chain.  Outcomes: the height reached, and
\* done/more/err.
SpSyncOutcomes ==
    IF spHeight = Len(idxChain)
    THEN { [h |-> spHeight, r |-> "done"], [h |-> spHeight, r |-> "err"] }
    ELSE { [h |-> k, r |-> IF k = Len(idxChain) THEN "done" ELSE "more"] :
              k \in (spHeight + 1)..Len(idxChain) }
         \cup { [h |-> k, r |-> "err"] : k \in spHeight..(Len(idxChain) - 1) }

SpApply(o) ==
    /\ spHeight' = o.h
    /\ is_sp_ready' = (is_sp_ready \/ o.r = "done")
    /\ spFullPass' = (spFullPass \/ o.r = "done")
    /\ dirty' = (dirty \/ o.h # spHeight)
    /\ UNCHANGED <<idxChain, is_ready, idxFullPass, touched>>

\* Index::is_ready / Index::is_sp_ready
IndexIsReady == is_ready
IndexIsSpReady == is_sp_ready

\* ----------------------------------------------------------------- Mempool
\* Mempool::sync(daemon, exit_flag): replaces the snapshot by the daemon's
\* current pool; a failure inside it is not reported and leaves the snapshot
\* as it was.
MempoolSyncOutcomes == { [m |-> dmempool, r |-> "ok"], [m |-> mempool, r |-> "fail"] }

\* ----------------------------------------------------------- Tracker::sync
\* sync takes `&mut self`: no other Tracker operation runs between its
\* steps.  Each action below is one collaborator call together with the
\* control flow that follows it up to the next collaborator call or the
\* return; the daemon may move in between.
BoolRet(d) == IF d THEN "true" ELSE "false"

RunsSilentPayments_ignoresDone(d) == silent_payments_index

\* tracker.rs 79: `if done && self.silent_payments_index`
RunsSilentPayments(d) == d /\ silent_payments_index

RunsMempool_ignoresDone(d) == ~ignore_mempool

\* tracker.rs 82: `if done && !self.ignore_mempool`
RunsMempool(d) == d /\ ~ignore_mempool

Propagate_carriesOn == [pc |-> "mempool", done |-> FALSE, ret |-> "none"]

\* `?` on a collaborator's error: the call returns it at once
Propagate == [pc |-> "idle", done |-> FALSE, ret |-> "err"]

\* the local `done` is lost on the way to the Mempool step
AfterSilentPayments_losesDone(d) ==
    IF RunsMempool(d)
    THEN [pc |-> "mempool", done |-> FALSE, ret |-> "none"]
    ELSE [pc |-> "idle", done |-> FALSE, ret |-> BoolRet(d)]

\* tracker.rs 82-86, entered with the local `done` = d
AfterSilentPayments(d) ==
    IF RunsMempool(d)
    THEN [pc |-> "mempool", done |-> d, ret |-> "none"]
    ELSE [pc |-> "idle", done |-> FALSE, ret |-> BoolRet(d)]

\* every Index step that does not fail counts as done
AfterIndex_moreIsDone(r) ==
    IF r = "err" THEN Propagate
    ELSE IF RunsSilentPayments(TRUE)
         THEN [pc |-> "sp", done |-> TRUE, ret |-> "none"]
         ELSE AfterSilentPayments(TRUE)

\* tracker.rs 78-79: `let mut done = self.index.sync(..)?` returned r
AfterIndex(r) ==
    IF r = "err" THEN Propagate
    ELSE IF RunsSilentPayments(r = "done")
         THEN [pc |-> "sp", done |-> (r = "done"), ret |-> "none"]
         ELSE AfterSilentPayments(r = "done")

AfterSpStep_keepsDone(r) ==
    IF r = "err" THEN Propagate ELSE AfterSilentPayments(TRUE)

\* the silent-payments step's answer is taken as "not finished" always
AfterSpStep_neverDone(r) ==
    IF r = "err" THEN Propagate ELSE AfterSilentPayments(FALSE)

\* tracker.rs 80-81: `done = self.index.silent_payments_sync(..)?` returned r
AfterSpStep(r) ==
    IF r = "err" THEN Propagate ELSE AfterSilentPayments(r = "done")

Goto(n) ==
    /\ pc' = n.pc
    /\ done' = n.done
    /\ ret' = n.ret

\* the Index, and the silent-payments index when enabled, have finished a
\* pass and hold all of the daemon's chain
CaughtUp ==
    /\ is_ready /\ idxChain = chain
    /\ silent_payments_index => (is_sp_ready /\ spHeight = Len(idxChain))

\* tracker.rs 77-78: the call starts and runs the Index step
sync_index ==
    /\ pc = "idle"
    /\ \E o \in IndexSyncOutcomes :
         /\ IndexApply(o)
         /\ steps' = <<[s |-> "index", r |-> o.r]>>
         /\ Goto(AfterIndex(o.r))
    /\ mempoolAtCall' = mempool
    /\ steady' = CaughtUp
    /\ UNCHANGED <<cfgVars, daemonVars, mempool, statusVars, pureVars>>

\* tracker.rs 80: the silent-payments step
sync_silent_payments ==
    /\ pc = "sp"
    /\ \E o \in SpSyncOutcomes :
         /\ SpApply(o)
         /\ steps' = Append(steps, [s |-> "sp", r |-> o.r])
         /\ Goto(AfterSpStep(o.r))
    /\ UNCHANGED <<cfgVars, daemonVars, mempool, mempoolAtCall, quietVars, statusVars, pureVars>>

\* the tip is checked again after the refresh: on a difference the call
\* asks for another pass
sync_mempool_rechecksTip ==
    /\ pc = "mempool"
    /\ \E o \in MempoolSyncOutcomes :
         /\ mempool' = o.m
         /\ steps' = Append(steps, [s |-> "mempool", r |-> o.r])
         /\ touched' = (touched \/ o.m # mempool)
         /\ dirty' = (dirty \/ o.m # mempool)
    /\ Goto([pc |-> "idle", done |-> FALSE, ret |-> BoolRet(done /\ idxChain = chain)])
    /\ UNCHANGED <<cfgVars, daemonVars, indexVars, mempoolAtCall, quietVars, statusVars, pureVars>>

\* a failure inside the Mempool step is returned as the call's error
sync_mempool_surfacesFailure ==
    /\ pc = "mempool"
    /\ \E o \in MempoolSyncOutcomes :
         /\ mempool' = o.m
         /\ steps' = Append(steps, [s |-> "mempool", r |-> o.r])
         /\ touched' = (touched \/ o.m # mempool)
         /\ dirty' = (dirty \/ o.m # mempool)
         /\ Goto([pc |-> "idle", done |-> FALSE,
                  ret |-> IF o.r = "fail" THEN "err" ELSE BoolRet(done)])
    /\ UNCHANGED <<cfgVars, daemonVars, indexVars, mempoolAtCall, quietVars, statusVars, pureVars>>

\* tracker.rs 83-86: the Mempool step, whose outcome is dropped, and the return
sync_mempool ==
    /\ pc = "mempool"
    /\ \E o \in MempoolSyncOutcomes :
         /\ mempool' = o.m
         /\ steps' = Append(steps, [s |-> "mempool", r |-> o.r])
         /\ touched' = (touched \/ o.m # mempool)
         /\ dirty' = (dirty \/ o.m # mempool)
    /\ Goto([pc |-> "idle", done |-> FALSE, ret |-> BoolRet(done)])
    /\ UNCHANGED <<cfgVars, daemonVars, indexVars, mempoolAtCall, quietVars, statusVars, pureVars>>

\* --------------------------------------- Tracker::status, Tracker::sp_status
status_alwaysOk == "Ok"

\* tracker.rs 89-94
status == IF IndexIsReady THEN "Ok" ELSE "NotReady"

\* tracker.rs 96-101
sp_status == IF IndexIsSpReady THEN "Ok" ELSE "NotReady"

\* ------------------------------------- Tracker::chain and the derived views
\* tracker.rs 61-63
TrackerChain == idxChain

\* tracker.rs 73-75, 114-116: projections of a status against the Index's
\* chain; a status lists its entries as (transaction, height), height 0
\* being unconfirmed; entries above the chain's tip are left out
StatusUnspent(st, c) == { st[i] : i \in { k \in 1..Len(st) : st[k][2] <= Len(c) } }

StatusBalance(st, c) ==
    [confirmed |-> Cardinality({ i \in 1..Len(st) : st[i][2] > 0 /\ st[i][2] <= Len(c) }),
     unconfirmed |-> Cardinality({ i \in 1..Len(st) : st[i][2] = 0 })]

get_unspent == StatusUnspent(statushash, TrackerChain)

get_balance == StatusBalance(statushash, TrackerChain)

\* ------------------------------------------------------- ScriptHashStatus
\* The history a status is computed over: the confirmed entries in height,
\* then position order, followed by the Mempool's entries (height 0).  The
\* statushash is a digest of this list; it is represented by the list
\* itself (a collision-free digest).
RECURSIVE Confirmed(_, _)
Confirmed(c, h) ==
    IF h > Len(c) THEN <<>>
    ELSE [i \in 1..Cardinality(c[h]) |-> <<SortedSeq(c[h])[i], h>>] \o Confirmed(c, h + 1)

Unconfirmed(m) == [i \in 1..Cardinality(m) |-> <<SortedSeq(m)[i], 0>>]

History(c, m) == Confirmed(c, 1) \o Unconfirmed(m)

\* ScriptHashStatus::sync(index, mempool, daemon, cache): recomputes the
\* status from the current Index and Mempool; on an error the statushash
\* keeps its value.
StatusSyncOutcomes ==
    { [h |-> History(idxChain, mempool), r |-> "ok"], [h |-> statushash, r |-> "err"] }

Changed_inverted(prev_statushash, new_statushash) == prev_statushash = new_statushash

\* tracker.rs 111: `Ok(prev_statushash != status.statushash())`
Changed(prev_statushash, new_statushash) == prev_statushash # new_statushash

\* the recomputation refreshes the Mempool from the daemon on its way
update_scripthash_status_refreshesMempool ==
    /\ pc = "idle"
    /\ mempool' = dmempool
    /\ \E o \in StatusSyncOutcomes :
         /\ statushash' = o.h
         /\ changed' = IF o.r = "err" THEN "err" ELSE BoolRet(Changed(statushash, o.h))
         /\ IF o.r = "ok"
            THEN /\ lastSeen' = History(idxChain, mempool)
                 /\ touched' = FALSE
                 /\ dirty' = FALSE
            ELSE UNCHANGED <<lastSeen, touched, dirty>>
    /\ UNCHANGED <<cfgVars, daemonVars, indexVars, callVars, quietVars, pureVars>>

\* the recomputation does not wait for a running sync call
update_scripthash_status_duringSync ==
    /\ \E o \in StatusSyncOutcomes :
         /\ statushash' = o.h
         /\ changed' = IF o.r = "err" THEN "err" ELSE BoolRet(Changed(statushash, o.h))
         /\ IF o.r = "ok"
            THEN /\ lastSeen' = History(idxChain, mempool)
                 /\ touched' = FALSE
                 /\ dirty' = FALSE
            ELSE UNCHANGED <<lastSeen, touched, dirty>>
    /\ UNCHANGED <<cfgVars, daemonVars, indexVars, mempool, callVars, quietVars, pureVars>>

\* the statushash held before is read after the recomputation
update_scripthash_status_readsPrevLate ==
    /\ pc = "idle"
    /\ \E o \in StatusSyncOutcomes :
         /\ statushash' = o.h
         /\ changed' = IF o.r = "err" THEN "err" ELSE BoolRet(Changed(o.h, o.h))
         /\ IF o.r = "ok"
            THEN /\ lastSeen' = History(idxChain, mempool)
                 /\ touched' = FALSE
                 /\ dirty' = FALSE
            ELSE UNCHANGED <<lastSeen, touched, dirty>>
    /\ UNCHANGED <<cfgVars, daemonVars, indexVars, mempool, callVars, quietVars, pureVars>>

\* tracker.rs 103-112; a reader (`&self`): it runs only between sync calls
update_scripthash_status ==
    /\ pc = "idle"
    /\ \E o \in StatusSyncOutcomes :
         /\ statushash' = o.h
         /\ changed' = IF o.r = "err" THEN "err" ELSE BoolRet(Changed(statushash, o.h))
         /\ IF o.r = "ok"
            THEN /\ lastSeen' = History(idxChain, mempool)
                 /\ touched' = FALSE
                 /\ dirty' = FALSE
            ELSE UNCHANGED <<lastSeen, touched, dirty>>
    /\ UNCHANGED <<cfgVars, daemonVars, indexVars, mempool, callVars, quietVars, pureVars>>

\* ---------------------------------------------- Tracker::lookup_transaction
\* What the daemon delivers for a block hash is a list of items, each a
\* transaction or bytes that do not parse.
LookupTxids == {1, 2}

\* Option<T>
None == <<>>
Some(x) == <<x>>

TxItem(t) == [kind |-> "tx", txid |-> t]
Malformed == [kind |-> "malformed", txid |-> 0]
Items == { TxItem(t) : t \in LookupTxids } \cup {Malformed}

SeqsUpTo(S, n) == UNION { [1..k -> S] : k \in 0..n }

BlockContents == SeqsUpTo(Items, MaxBlockItems)

\* bsl::Block::visit with a FindTransaction visitor: parses the block item
\* by item; the visitor breaks at the first transaction whose txid is the
\* one sought, so nothing behind it is parsed.
RECURSIVE Visit(_, _)
Visit(block, t) ==
    IF block = <<>> THEN [r |-> "Ok", tx_found |-> None]
    ELSE IF Head(block).kind = "malformed" THEN [r |-> "Err", tx_found |-> None]
    ELSE IF Head(block).txid = t THEN [r |-> "VisitBreak", tx_found |-> Some(Head(block))]
    ELSE Visit(Tail(block), t)

\* the closure pairs a found transaction with the first candidate's hash
OnVisit_pairsFirstHash(v, blockhash) ==
    IF v.r \in {"Ok", "VisitBreak"}
    THEN [panic |-> FALSE,
          result |-> IF v.tx_found = None THEN None
                     ELSE Some(<<blockhashes[1], v.tx_found[1]>>)]
    ELSE [panic |-> TRUE, result |-> None]

\* the closure forgets the `Err(VisitBreak)` arm: a found transaction panics
OnVisit_breakIsInvalid(v, blockhash) ==
    IF v.r = "Ok" THEN [panic |-> FALSE, result |-> None]
    ELSE [panic |-> TRUE, result |-> None]

\* the closure treats a block that does not parse as one without a match
OnVisit_ignoresInvalid(v, blockhash) ==
    IF v.r = "VisitBreak" THEN [panic |-> FALSE, result |-> Some(<<blockhash, v.tx_found[1]>>)]
    ELSE [panic |-> FALSE, result |-> None]

\* tracker.rs 131-134: the match on the visit's result
OnVisit(v, blockhash) ==
    IF v.r \in {"Ok", "VisitBreak"}
    THEN [panic |-> FALSE,
          result |-> IF v.tx_found = None THEN None ELSE Some(<<blockhash, v.tx_found[1]>>)]
    ELSE [panic |-> TRUE, result |-> None]

KeepsFirst_never(r) == FALSE

\* tracker.rs 127-129: `if result.is_some() { return; }`
KeepsFirst(r) == r # None

\* Index::filter_by_txid and the daemon's content: a lookup starts
\* (tracker.rs 124-125)
LookupInit ==
    /\ txid \in LookupTxids
    /\ \E n \in 0..MaxCandidates :
         /\ blockhashes = [i \in 1..n |-> i]
         /\ blocks \in [1..n -> BlockContents]
    /\ delivered = 0 /\ result = None /\ outcome = "running" /\ scanned = <<>>

\* Daemon::for_blocks delivers the next candidate, in candidate order, to
\* the closure (tracker.rs 126-134)
for_blocks_deliver ==
    /\ outcome = "running"
    /\ delivered < Len(blockhashes)
    /\ delivered' = delivered + 1
    /\ LET i == delivered + 1
           o == OnVisit(Visit(blocks[i], txid), blockhashes[i])
       IN  IF KeepsFirst(result)
           THEN UNCHANGED <<result, outcome, scanned>>
           ELSE /\ scanned' = Append(scanned, i)
                /\ result' = o.result
                /\ outcome' = IF o.panic THEN "panic" ELSE "running"
    /\ UNCHANGED <<txid, blockhashes, blocks, trackerVars, tweakVars>>

\* Daemon::for_blocks fails while blocks are outstanding (a disconnect, a
\* malformed response); `?` propagates it (tracker.rs 135)
for_blocks_fails ==
    /\ outcome = "running"
    /\ delivered < Len(blockhashes)
    /\ outcome' = "err"
    /\ UNCHANGED <<txid, blockhashes, blocks, delivered, result, scanned, trackerVars, tweakVars>>

\* Daemon::for_blocks has delivered every candidate; `Ok(result)`
\* (tracker.rs 135-136)
lookup_returns ==
    /\ outcome = "running"
    /\ delivered = Len(blockhashes)
    /\ outcome' = "ok"
    /\ UNCHANGED <<txid, blockhashes, blocks, delivered, result, scanned, trackerVars, tweakVars>>

\* ------------------------------------------------------ Tracker::get_tweaks
TweakStrings == {"a", "b"}

TweakRecords ==
    [height : 1..MaxTweakHeight, values : SeqsUpTo(TweakStrings, MaxTweakLen)]

\* Index::get_tweaks(height): the records at or above the height, in the
\* order the Index holds them
IndexGetTweaks(h) == SelectSeq(tweakStore, LAMBDA rec : rec.height >= h)

EntryExtend_overwrites(m, h, v) ==
    [k \in DOMAIN m \cup {h} |-> IF k = h THEN v ELSE m[k]]

\* tracker.rs 143: `res.entry(height).or_insert_with(Vec::new).extend(tweaks)`
EntryExtend(m, h, v) ==
    [k \in DOMAIN m \cup {h} |->
        IF k = h THEN (IF h \in DOMAIN m THEN m[h] ELSE <<>>) \o v ELSE m[k]]

\* HashMap::new()
EmptyMap == <<>>

\* a call is made: any store within the bounds, any requested height
TweaksInit ==
    /\ tweakStore \in SeqsUpTo(TweakRecords, MaxRecords)
    /\ height \in 0..MaxTweakHeight
    /\ tweaks = <<>> /\ folded = 0 /\ res = EmptyMap /\ twpc = "called"

\* tracker.rs 140-141: collect what the Index yields; `res` starts empty
get_tweaks_collect ==
    /\ twpc = "called"
    /\ tweaks' = IndexGetTweaks(height)
    /\ res' = EmptyMap
    /\ folded' = 0
    /\ twpc' = "folding"
    /\ UNCHANGED <<tweakStore, height, trackerVars, lookupVars>>

\* tracker.rs 142-144: one turn of the loop
get_tweaks_fold ==
    /\ twpc = "folding"
    /\ folded < Len(tweaks)
    /\ res' = EntryExtend(res, tweaks[folded + 1].height, tweaks[folded + 1].values)
    /\ folded' = folded + 1
    /\ UNCHANGED <<tweakStore, height, tweaks, twpc, trackerVars, lookupVars>>

\* tracker.rs 145: `Ok(res)`
get_tweaks_returns ==
    /\ twpc = "folding"
    /\ folded = Len(tweaks)
    /\ twpc' = "returned"
    /\ UNCHANGED <<tweakStore, height, tweaks, folded, res, trackerVars, lookupVars>>

\* ----------------------------------------------------------- specification
PureIdle ==
    /\ txid = 0 /\ blockhashes = <<>> /\ blocks = <<>>
    /\ delivered = 0 /\ result = <<>> /\ outcome = "idle" /\ scanned = <<>>
    /\ tweakStore = <<>> /\ height = 0 /\ tweaks = <<>> /\ folded = 0
    /\ res = <<>> /\ twpc = "idle"

TrackerNew ==
    /\ ignore_mempool \in BOOLEAN
    /\ silent_payments_index \in BOOLEAN
    /\ chain = <<>> /\ dmempool = {}
    /\ idxChain = <<>> /\ is_ready = FALSE /\ spHeight = 0 /\ is_sp_ready = FALSE
    /\ idxFullPass = FALSE /\ spFullPass = FALSE
    /\ mempool = {}
    /\ pc = "idle" /\ done = FALSE /\ ret = "none"
    /\ steps = <<>> /\ mempoolAtCall = {} /\ steady = FALSE
    /\ statushash = <<>> /\ changed = "none" /\ lastSeen = <<>>
    /\ touched = FALSE /\ dirty = FALSE

Init == TrackerNew /\ PureIdle

Next ==
    \/ TxEnter \/ TxLeave \/ NewBlock \/ Reorg
    \/ sync_index \/ sync_silent_payments \/ sync_mempool
    \/ update_scripthash_status

Spec == Init /\ [][Next]_vars

\* the sync driver and the daemon alone, no subscriber
NextSync ==
    \/ TxEnter \/ TxLeave \/ NewBlock \/ Reorg
    \/ sync_index \/ sync_silent_payments \/ sync_mempool

SpecSync == Init /\ [][NextSync]_vars

\* the polling loop: the driver calls sync again and again, and a call that
\* has started runs on to its return
SpecLive ==
    /\ Init /\ [][NextSync]_vars
    /\ WF_vars(sync_index) /\ WF_vars(sync_silent_payments) /\ WF_vars(sync_mempool)

\* lookup_transaction on a Tracker at rest, over every bounded input
TweaksIdle ==
    /\ tweakStore = <<>> /\ height = 0 /\ tweaks = <<>> /\ folded = 0
    /\ res = <<>> /\ twpc = "idle"

InitLookup == TrackerNew /\ LookupInit /\ TweaksIdle

NextLookup == for_blocks_deliver \/ for_blocks_fails \/ lookup_returns

SpecLookup == InitLookup /\ [][NextLookup]_vars

\* get_tweaks on a Tracker at rest, over every bounded input
LookupIdle ==
    /\ txid = 0 /\ blockhashes = <<>> /\ blocks = <<>>
    /\ delivered = 0 /\ result = <<>> /\ outcome = "idle" /\ scanned = <<>>

InitTweaks == TrackerNew /\ LookupIdle /\ TweaksInit

NextTweaks == get_tweaks_collect \/ get_tweaks_fold \/ get_tweaks_returns

SpecTweaks == InitTweaks /\ [][NextTweaks]_vars

\* every reader over all its bounded inputs: the subscriber against a
\* Tracker that syncs with a moving daemon, lookups and tweak queries each
\* on a Tracker at rest
PureAtRest == outcome = "idle" /\ twpc = "idle"

InitReaders == Init \/ InitLookup \/ InitTweaks

NextReaders == (PureAtRest /\ Next) \/ NextLookup \/ NextTweaks

SpecReaders == InitReaders /\ [][NextReaders]_vars

\* ================================================================== claims
HasStep(name) == \E i \in 1..Len(steps) : steps[i].s = name

StepOutcome(name) ==
    IF HasStep(name) THEN steps[CHOOSE i \in 1..Len(steps) : steps[i].s = name].r
    ELSE "none"

StepNames == [i \in 1..Len(steps) |-> steps[i].s]

\* a sync call has returned and no other has started
Returned == pc = "idle" /\ ret # "none"

\* C1: with silent_payments_index set, a sync call returns done = true
\* exactly when both its Index step and its silent-payments step reported
\* done; in particular never when the silent-payments step did not finish.
C1_SilentPaymentsGating ==
    (Returned /\ silent_payments_index) =>
        ((ret = "true") <=> (StepOutcome("index") = "done" /\ StepOutcome("sp") = "done"))

\* C1 witness: the Index step reported done, the silent-payments step did
\* not, and the call returned done = false.
C1_Witness ==
    /\ Returned /\ silent_payments_index
    /\ StepOutcome("index") = "done" /\ StepOutcome("sp") = "more"
    /\ ret = "false"

\* C2: the collaborator calls of one sync call are made in the order Index,
\* silent payments, Mempool; once the call has returned, the silent-payments
\* step was made iff the Index step reported done and silent_payments_index
\* is set, and the Mempool step was made iff the combined result was done
\* and ignore_mempool is not set (so only in a call that returns true).
C2_StepOrder ==
    /\ StepNames \in { <<>>, <<"index">>, <<"index", "sp">>, <<"index", "mempool">>,
                       <<"index", "sp", "mempool">> }
    /\ pc = "sp" => StepNames = <<"index">>
    /\ pc = "mempool" => StepNames \in { <<"index">>, <<"index", "sp">> }
    /\ Returned =>
          LET idxDone == StepOutcome("index") = "done"
              combined == idxDone /\ (silent_payments_index => StepOutcome("sp") = "done")
          IN  /\ HasStep("sp") <=> (idxDone /\ silent_payments_index)
              /\ HasStep("mempool") <=> (combined /\ ~ignore_mempool)
              /\ HasStep("mempool") => ret = "true"

\* C2 witness: a call that made all three steps, in order.
C2_Witness ==
    Returned /\ StepNames = <<"index", "sp", "mempool">> /\ mempool # mempoolAtCall

\* C3: a sync call in which the Index step or the silent-payments step
\* failed returns the error, has not called the Mempool step, and leaves the
\* Mempool as it was when the call started; no other call returns an error.
C3_ErrorKeepsMempool ==
    Returned =>
        LET failed == StepOutcome("index") = "err" \/ StepOutcome("sp") = "err"
        IN  /\ (ret = "err") <=> failed
            /\ failed => (mempool = mempoolAtCall /\ ~HasStep("mempool"))

\* C3 witness: the silent-payments step failed while the daemon's pool
\* differed from the Mempool (a refresh would have changed it).
C3_Witness ==
    /\ Returned /\ ret = "err" /\ StepOutcome("sp") = "err"
    /\ ~ignore_mempool /\ dmempool # mempool

\* C4: status() is NotReady as long as the Index has not finished a full
\* pass, sp_status() as long as the silent-payments index has not; and an Ok
\* answer of either is never followed by NotReady.
C4_Readiness ==
    /\ [](~idxFullPass => status = "NotReady")
    /\ [](~spFullPass => sp_status = "NotReady")
    /\ [][(status = "Ok" => status' = "Ok") /\ (sp_status = "Ok" => sp_status' = "Ok")]_vars

\* C4 witness: both queries answer Ok after a later sync call failed while
\* the Index is behind the daemon again.
C4_Witness ==
    /\ Returned /\ ret = "err" /\ idxChain # chain
    /\ status = "Ok" /\ sp_status = "Ok"

\* C5 as stated: whenever a transaction entered or left the Mempool, or a
\* block holding one was indexed, since the previous successful update, the
\* next successful update_scripthash_status call reports changed = true.
C5_EveryEventReported ==
    [][(update_scripthash_status /\ changed \in {"true", "false"} /\ touched /\ changed' # "err")
          => changed' = "true"]_vars

\* C5 amended: a successful update_scripthash_status call reports changed =
\* true exactly when the script hash's visible history (the Index's
\* confirmed entries followed by the Mempool's) differs from the one seen by
\* the previous successful call; changes that cancel out are not reported.
C5_NetChangeReported ==
    [][(update_scripthash_status /\ changed' # "err") =>
          changed' = BoolRet(History(idxChain, mempool) # lastSeen)]_vars

\* C5 witness: an update has just reported a change that confirmed the
\* watched transaction in an indexed block.
C5_Witness ==
    /\ changed = "true" /\ ~touched
    /\ lastSeen = History(idxChain, mempool)
    /\ \E i \in 1..Len(lastSeen) : lastSeen[i][2] > 0

Contains(i) ==
    \E k \in 1..Len(blocks[i]) : blocks[i][k] = TxItem(txid)

\* candidate i holds bytes that do not parse
Invalid(i) ==
    \E k \in 1..Len(blocks[i]) : blocks[i][k] = Malformed

Range(q) == { q[i] : i \in 1..Len(q) }

LookupEnded == outcome \in {"ok", "err", "panic"}

\* the first candidate, in the Index's order, that holds the transaction
FirstContaining ==
    CHOOSE i \in 1..Len(blockhashes) : Contains(i) /\ \A j \in 1..(i - 1) : ~Contains(j)

\* C7: the result is always the pair (hash, transaction) of the first
\* candidate, in the Index's order, that holds the transaction, and it is
\* what a call over candidates holding it returns; no candidate behind a
\* match is scanned; a result once set is never replaced.
C7_FirstMatchWins ==
    /\ [](result # None =>
            /\ FirstContaining <= delivered
            /\ result = Some(<<blockhashes[FirstContaining], TxItem(txid)>>)
            /\ \A j \in Range(scanned) : j <= FirstContaining)
    /\ []((outcome = "ok" /\ \E i \in 1..Len(blockhashes) : Contains(i)) => result # None)
    /\ [][result # None => result' = result]_vars

\* C7 witness: two candidates hold the transaction, the call returned the
\* first one and the second was delivered without being scanned.
C7_Witness ==
    /\ outcome = "ok" /\ Len(blockhashes) = 2
    /\ Contains(1) /\ Contains(2)
    /\ result = Some(<<blockhashes[1], TxItem(txid)>>)
    /\ scanned = <<1>>

\* C8 as stated, for candidates whose content parses: the call ends with a
\* result whenever a delivered candidate holds the transaction, and with
\* Ok(None) if the candidates were delivered and none holds it.
C8_ResultIffContained ==
    (LookupEnded /\ \A i \in 1..Len(blockhashes) : ~Invalid(i)) =>
        /\ (\E i \in 1..delivered : Contains(i)) => (outcome = "ok" /\ result # None)
        /\ (delivered = Len(blockhashes) /\ ~\E i \in 1..delivered : Contains(i))
              => (outcome = "ok" /\ result = None)

\* C8 amended: when the daemon call completes and no scanned block fails to
\* parse, the call returns Ok(None) if no candidate holds the transaction
\* and Ok of a result if one does; it ends otherwise only with the daemon's
\* error, raised while candidates were outstanding, or with the fatal
\* outcome, raised by a scanned block that does not parse.
C8_ResultIffContainedWhenOk ==
    /\ outcome = "ok" =>
          /\ delivered = Len(blockhashes)
          /\ (result = None) <=> ~\E i \in 1..delivered : Contains(i)
    /\ outcome = "err" => delivered < Len(blockhashes)
    /\ outcome = "panic" => \E i \in Range(scanned) : Invalid(i)
    /\ Len(blockhashes) = 0 => outcome \in {"running", "ok"}

\* C8 witness: the Index names two candidates, the daemon delivered both,
\* neither holds the transaction, and the call returned Ok(None).
C8_Witness ==
    /\ outcome = "ok" /\ result = None
    /\ Len(blockhashes) = 2 /\ delivered = 2 /\ scanned = <<1, 2>>

\* C9 as stated: if a delivered block is one whose scan for the txid fails
\* to parse, the lookup ends in the fatal outcome, also when that block is
\* delivered after an earlier candidate matched.
C9_EveryInvalidBlockFatal ==
    LookupEnded =>
        ((\E i \in 1..delivered : Visit(blocks[i], txid).r = "Err") => outcome = "panic")

\* C9 amended: the lookup ends in the fatal outcome, without a result,
\* exactly when the scan of a delivered block reports a parse error; only
\* blocks delivered before any match are scanned, and a scan stops at the
\* match, so content that does not parse behind a match is not detected.
C9_ScannedInvalidFatal ==
    /\ (\E i \in Range(scanned) : Visit(blocks[i], txid).r = "Err") <=> outcome = "panic"
    /\ outcome = "panic" => result = None
    /\ \A i \in 1..delivered :
          (i \notin Range(scanned)) <=> (\E j \in 1..(i - 1) : Visit(blocks[j], txid).r = "VisitBreak")

\* C9 witness: the first candidate was scanned without a match, the second
\* does not parse, and the lookup ended fatally.
C9_Witness ==
    /\ outcome = "panic" /\ scanned = <<1, 2>>
    /\ ~Invalid(1) /\ Invalid(2)

\* --------------------------------------------------------- get_tweaks claim
\* the values of the records of q with height h, concatenated in record order
RECURSIVE ValuesAt(_, _)
ValuesAt(q, h) ==
    IF q = <<>> THEN <<>>
    ELSE (IF Head(q).height = h THEN Head(q).values ELSE <<>>) \o ValuesAt(Tail(q), h)

\* C10: get_tweaks returns Ok of a map whose keys are exactly the heights of
\* the records the Index yielded (those of the store at or above the
\* requested height) and which maps each height to the concatenation, in
\* record order, of the value lists recorded for it; the map is empty when
\* no record is in range; the call has no error outcome.
C10_TweakAggregation ==
    /\ twpc \in {"idle", "called", "folding", "returned"}
    /\ twpc = "returned" =>
          /\ tweaks = SelectSeq(tweakStore, LAMBDA rec : rec.height >= height)
          /\ DOMAIN res = { tweaks[i].height : i \in 1..Len(tweaks) }
          /\ \A h \in DOMAIN res : res[h] = ValuesAt(tweaks, h)
          /\ (tweaks = <<>>) => (res = EmptyMap)

\* C10 witness: two records of the same height, both with values, were
\* folded into one entry holding both lists.
C10_Witness ==
    /\ twpc = "returned" /\ Len(tweaks) = 2
    /\ tweaks[1].height = tweaks[2].height
    /\ tweaks[1].values # <<>> /\ tweaks[2].values # <<>>
    /\ tweaks[1].values # tweaks[2].values
    /\ res[tweaks[1].height] = tweaks[1].values \o tweaks[2].values

\* ------------------------------------------------------- sync claims, cont.
\* one collaborator call of a sync call
SyncStep == sync_index \/ sync_silent_payments \/ sync_mempool

C12_MempoolOutcomeDropped ==
    /\ [](Returned =>
            ((/\ StepOutcome("index") = "done"
              /\ silent_payments_index => StepOutcome("sp") = "done")
                => (ret = "true" /\ StepOutcome("mempool") \in {"ok", "fail", "none"})))
    /\ [][sync_mempool => (pc' = "idle" /\ ret' = "true")]_vars

\* C12 witness: the refresh failed inside while the daemon's pool differed
\* from the Mempool, the Mempool stayed as it was, and the call returned
\* true.
C12_Witness ==
    /\ Returned /\ ret = "true" /\ silent_payments_index
    /\ StepOutcome("mempool") = "fail"
    /\ steady /\ mempool = mempoolAtCall /\ mempool # dmempool

\* ---------------------------------------------------------- frame of readers
\* a step of update_scripthash_status, lookup_transaction or get_tweaks
ReaderStep ==
    \/ update_scripthash_status
    \/ for_blocks_deliver \/ for_blocks_fails \/ lookup_returns
    \/ get_tweaks_collect \/ get_tweaks_fold \/ get_tweaks_returns

\* the state of Index and Mempool that the operations share
SharedState == <<idxChain, is_ready, spHeight, is_sp_ready, mempool>>

\* C13: no step of update_scripthash_status, lookup_transaction or
\* get_tweaks changes Index or Mempool, whether the call succeeds or fails;
\* update_scripthash_status changes nothing but the status passed to it and
\* its return value; every change of Index or Mempool is a step of sync.
\* status, sp_status, get_balance and get_unspent are values computed from
\* the state, defined in every state.
C13_ReadersFrame ==
    /\ [][ReaderStep => UNCHANGED SharedState]_vars
    /\ [][update_scripthash_status =>
            UNCHANGED <<cfgVars, daemonVars, indexVars, mempool, callVars, pureVars>>]_vars
    /\ [][SharedState' # SharedState => SyncStep]_vars
    /\ [](/\ status \in {"Ok", "NotReady"} /\ sp_status \in {"Ok", "NotReady"}
          /\ get_balance.confirmed + get_balance.unconfirmed <= Len(statushash)
          /\ Cardinality(get_unspent) <= Len(statushash))

\* C13 witness: a status update failed on a Tracker whose Index and Mempool
\* both hold a transaction and differ from what the status was computed
\* over; they are as sync left them.
C13_Witness ==
    /\ changed = "err" /\ Returned
    /\ InChain(idxChain) # {} /\ mempool # {}
    /\ statushash # History(idxChain, mempool)

C15_DoneImpliesReady ==
    /\ []((Returned /\ ret = "true") =>
            (status = "Ok" /\ (silent_payments_index => sp_status = "Ok")))
    /\ [][(status = "Ok" /\ (silent_payments_index => sp_status = "Ok")) =>
            (status' = "Ok" /\ (silent_payments_index => sp_status' = "Ok"))]_vars

\* C15 witness: a call that had to index the whole chain and scan it for
\* tweaks returned true, and both queries answer Ok.
C15_Witness ==
    /\ Returned /\ ret = "true" /\ silent_payments_index /\ ~steady
    /\ Len(idxChain) = MaxHeight /\ spHeight = MaxHeight
    /\ status = "Ok" /\ sp_status = "Ok"

\* C16: the Mempool step does not look at the tip again: also when the
\* daemon's chain no longer is the chain the Index step ended on, it
\* refreshes the Mempool from the daemon as it is now, leaves the Index as
\* it is, and the call returns done = true.
C16_TipNotRevalidated ==
    [][(sync_mempool /\ idxChain # chain) =>
          /\ pc' = "idle" /\ ret' = "true"
          /\ idxChain' = idxChain /\ idxChain' # chain'
          /\ mempool' \in {dmempool, mempool}]_vars

\* C16 witness: in a call that returned true, the Index step ended on a
\* chain that confirms a transaction; the daemon then dropped that block,
\* and the refresh, which succeeded, took the transaction as pending: the
\* Tracker holds it both as confirmed and in the Mempool.
C16_Witness ==
    /\ Returned /\ ret = "true"
    /\ StepOutcome("index") = "done" /\ StepOutcome("mempool") = "ok"
    /\ mempool \cap InChain(idxChain) # {}

\* ------------------------------------------------------ lookup claims, cont.
\* C17: a result (blockhash, tx) names a candidate the Index recorded, one
\* that was delivered and scanned; tx is an item of the content delivered
\* for that very candidate, a transaction, and has the requested txid.
C17_ResultFromItsBlock ==
    result # None =>
        LET blockhash == result[1][1]
            tx == result[1][2]
        IN  /\ \E i \in 1..Len(blockhashes) : blockhashes[i] = blockhash
            /\ \A i \in 1..Len(blockhashes) :
                  blockhashes[i] = blockhash =>
                      /\ i <= delivered /\ i \in Range(scanned)
                      /\ \E k \in 1..Len(blocks[i]) : blocks[i][k] = tx
            /\ tx.kind = "tx" /\ tx.txid = txid

\* C17 witness: the first candidate holds another transaction only; the
\* second holds another one and then the requested one; the call returned
\* the requested transaction with the second candidate's hash.
C17_Witness ==
    /\ outcome = "ok" /\ Len(blockhashes) = 2
    /\ Len(blocks[1]) = 1 /\ ~Contains(1) /\ ~Invalid(1)
    /\ Len(blocks[2]) = 2 /\ blocks[2][1] # TxItem(txid) /\ blocks[2][2] = TxItem(txid)
    /\ result = Some(<<blockhashes[2], TxItem(txid)>>)

\* ------------------------------------------------------- sync claims, cont.
\* C18: whenever sp_status() answers Ok, status() answers Ok: the
\* silent-payments step is made only in a call whose Index step reported
\* done, and by then the Index is ready.
C18_SpReadyImpliesReady ==
    /\ sp_status = "Ok" => status = "Ok"
    /\ pc = "sp" => (StepOutcome("index") = "done" /\ status = "Ok")
    /\ HasStep("sp") => StepOutcome("index") = "done"

\* C18 witness: the silent-payments step of a call has just reported done
\* for a chain with blocks, the call returned, and both queries answer Ok.
C18_Witness ==
    /\ Returned /\ silent_payments_index
    /\ StepOutcome("sp") = "done" /\ spHeight > 0
    /\ sp_status = "Ok" /\ status = "Ok"

\* a sync call has returned done = true after the steps the configuration
\* asks for, and status() answers Ok
DoneAndReady ==
    /\ Returned /\ ret = "true"
    /\ silent_payments_index => StepOutcome("sp") = "done"
    /\ ~ignore_mempool => HasStep("mempool")
    /\ status = "Ok"

====
